---- MODULE Spec2Model ----
(***************************************************************************)
(* Model of sas/subset_dataset.py: the coverage objective                  *)
(* (SubsetSelectionObjective), the partitioned subset construction         *)
(* (SASSubsetDataset.__init__) and the blocked similarity builder          *)
(* (SASSubsetDataset.pairwise_distance).                                   *)
(*                                                                         *)
(* Representation.                                                         *)
(*  - A numpy matrix is a function [0..n-1 -> [0..m-1 -> Int]]; similarity *)
(*    scores are integers (a fixed-point scale of the float scores).       *)
(*  - numpy arrays are objects: `arrays` is the store of array objects,    *)
(*    indexed by reference.  Reference c (a latent class id) is the array  *)
(*    augmentation_distance[c]; reference FRef is the array owned by the   *)
(*    current SubsetSelectionObjective.  An objective holds a reference    *)
(*    (F.distance), so aliasing and copying are distinguishable.           *)
(*  - subset_fraction is the rational subset_fraction / FractionDen.       *)
(*  - sas.submodular_maximization.lazy_greedy is imported by the file but  *)
(*    is not part of it; LGStart / LGStep / LGReturn follow the            *)
(*    specification's section 4.3.                                         *)
(***************************************************************************)
EXTENDS Integers, Sequences, FiniteSets, TLC

VARIABLES
    pc,                 \* position in SASSubsetDataset.__init__ / driver
    partition,          \* self.partition: class id -> sequence of item indices
    arrays,             \* store of numpy arrays, by reference
    F,                  \* current objective: [distance |-> ref, threshold |-> t]
    threshold,          \* constructor argument threshold
    subset_fraction,    \* numerator of self.subset_fraction (over FractionDen)
    precomputed,        \* TRUE iff augmentation_distance was passed by the caller
    Z,                  \* proxy-model encoding of every item (encode_trainset)
    todo,               \* keys of self.partition not yet visited by the first loop
    cur,                \* latent_class of the current iteration
    order,              \* lazy_greedy: priority structure of (gain, idx, round)
    sset,               \* lazy_greedy: selected indices, in order
    class_wise_idx,     \* class id -> ranked list (dict, insertion ordered)
    cw_keys,            \* insertion order of class_wise_idx
    k2,                 \* position of the second loop in cw_keys
    subset_indices,     \* self.subset_indices (None before line 213)
    outcome,            \* "running", "ok" or "error" (an exception left __init__)
    aug0,               \* history: the matrices as first obtained
    contrib,            \* history: entries each partition contributed
    addCalls,           \* history: arguments of the add calls made so far
    pops,               \* history: entries popped by the current lazy_greedy call
    Z1, Z2, block_size, \* pairwise_distance arguments
    pd_i, pd_j,         \* pairwise_distance loop counters
    row_blocks,         \* similarity_matrices_i
    similarity_matrices,
    similarity_matrix   \* the returned matrix (None before np.block)

vars == << pc, partition, arrays, F, threshold, subset_fraction, precomputed, Z,
           todo, cur, order, sset, class_wise_idx, cw_keys, k2, subset_indices,
           outcome, aug0, contrib, addCalls, pops, Z1, Z2, block_size, pd_i, pd_j,
           row_blocks, similarity_matrices, similarity_matrix >>

orchVars == << pc, partition, arrays, F, threshold, subset_fraction, precomputed,
               Z, todo, cur, order, sset, class_wise_idx, cw_keys, k2,
               subset_indices, outcome, aug0, contrib, addCalls, pops >>

pdVars == << Z1, Z2, block_size, pd_i, pd_j, row_blocks, similarity_matrices,
             similarity_matrix >>

None == "None"

\* ------------------------------------------------------------------ bounds
\* Largest universe (matrix dimension) of the single-objective runs.
MaxN == 3
\* The matrices enumerated for the selector runs are all non-negative integer
\* matrices whose entries sum to at most MaxWeight.
MaxWeight == 4
\* Thresholds range over 0..MaxThreshold.
MaxThreshold == 2
\* Longest member list of an enumerated partition.
MaxPart == 2
\* Entry weight of the matrices enumerated for partition mappings.
OrchWeight == 1
\* subset_fraction ranges over multiples of 1 / FractionDen.
FractionDen == 5
\* Entry weight of the matrices, and longest sequence of add calls, explored
\* on a free-standing objective.
ObjWeight == 2
MaxCalls == 3
\* Longest vector sequence and largest block size given to pairwise_distance.
MaxVecs == 3
MaxBlock == 4

\* Latent class ids and item indices (len(dataset) = 3) of the enumerated
\* partition mappings.
Classes == {1, 2}
Items == {0, 1, 2}

\* ----------------------------------------------------------------- helpers
RECURSIVE SumSeq(_)
SumSeq(s) == IF s = << >> THEN 0 ELSE Head(s) + SumSeq(Tail(s))

Range(s) == {s[k] : k \in DOMAIN s}

IsPrefix(s, t) == Len(s) <= Len(t) /\ \A k \in 1..Len(s) : s[k] = t[k]

\* len(matrix): the number of rows.
Rows(D) == Cardinality(DOMAIN D)

\* All sequences of m naturals whose sum is at most w.
RECURSIVE WeightedSeqs(_, _)
WeightedSeqs(m, w) ==
    IF m = 0 THEN {<< >>}
    ELSE UNION {{<<v>> \o s : s \in WeightedSeqs(m - 1, w - v)} : v \in 0..w}

\* The n x n matrices of total weight at most w.
Matrices(n, w) ==
    {[i \in 0..(n - 1) |-> [j \in 0..(n - 1) |-> s[i * n + j + 1]]] :
        s \in WeightedSeqs(n * n, w)}

\* ------------------------------------------------ SubsetSelectionObjective
\* np.sum(self.distance[i] * (self.distance[i] >= self.threshold))
ThresholdedRowSum(D, t, i) ==
    SumSeq([k \in 1..Cardinality(DOMAIN D[i]) |->
               IF D[i][k - 1] >= t THEN D[i][k - 1] ELSE 0])

\* np.sum(self.distance[np.ix_(sset, [i])]): column i of the rows listed in sset.
SelectedColumnSum(D, ss, i) == SumSeq([k \in 1..Len(ss) |-> D[ss[k]][i]])

\* SubsetSelectionObjective.inc
inc(D, t, ss, i) == ThresholdedRowSum(D, t, i) - SelectedColumnSum(D, ss, i)

add_zeroColumn(D, i) ==
    [r \in DOMAIN D |-> [c \in DOMAIN D[r] |-> IF c = i THEN 0 ELSE D[r][c]]]

add_noop(D, i) == D

\* SubsetSelectionObjective.add: self.distance[:][i] = 0 (a view of the whole
\* array, then row i of it).
add(D, i) == [D EXCEPT ![i] = [c \in DOMAIN D[i] |-> 0]]

\* ------------------------------------------------------- pairwise_distance
\* Encodings are integer vectors of norm 0 or 1, for which the cosine
\* similarity x.y / max(|x| |y|, eps) is the dot product (0 for a zero vector).
VecPool == {<<1, 0>>, <<0, 1>>, <<-1, 0>>}

\* The encodings the proxy model produces in the constructor runs.
EncoderPool == {<<1, 0>>, <<-1, 0>>}

Dot(u, v) == SumSeq([k \in 1..Len(u) |-> u[k] * v[k]])

\* torch.cosine_similarity of two vectors.
CosSim(u, v) == IF Dot(u, u) = 0 \/ Dot(v, v) = 0 THEN 0 ELSE Dot(u, v)

Min(a, b) == IF a <= b THEN a ELSE b
Max(a, b) == IF a >= b THEN a ELSE b

\* Python's s[lo:hi] for 0 <= lo <= hi.
Slice(s, lo, hi) == SubSeq(s, lo + 1, Min(hi, Len(s)))

NumBlocks_noRemainder(n, b) == n \div b

\* range(Z.shape[0] // block_size + 1)
NumBlocks(n, b) == n \div b + 1

\* np.array(torch.cosine_similarity(e[:, :, None], e_t[None, :, :])): the
\* len(e) x len(et) block of similarities, as a sequence of rows.
SimBlock(e, et) == [r \in 1..Len(e) |-> [c \in 1..Len(et) |-> CosSim(e[r], et[c])]]

RECURSIVE ConcatAll(_)
ConcatAll(ss) == IF ss = << >> THEN << >> ELSE Head(ss) \o ConcatAll(Tail(ss))

\* np.block of one list of blocks: concatenation along the last axis.
HStack(blocks) ==
    IF blocks = << >> THEN << >> ELSE
    [r \in 1..Len(blocks[1]) |-> ConcatAll([j \in 1..Len(blocks) |-> blocks[j][r]])]

\* np.block of the list of block rows: then concatenation along the first axis.
NpBlock(blockRows) == ConcatAll([i \in 1..Len(blockRows) |-> HStack(blockRows[i])])

\* The inner loop of pairwise_distance for row block i: similarity_matrices_i.
BlockRow(z1, z2, b, i) ==
    [j \in 1..NumBlocks(Len(z2), b) |->
        SimBlock(Slice(z1, (i - 1) * b, i * b), Slice(z2, (j - 1) * b, j * b))]

\* SASSubsetDataset.pairwise_distance, as a sequence of rows.
pairwise_distance(z1, z2, b) ==
    NpBlock([i \in 1..NumBlocks(Len(z1), b) |-> BlockRow(z1, z2, b, i)])

\* A sequence of rows as a 0-indexed matrix.
ToMatrix(rows) ==
    [i \in 0..(Len(rows) - 1) |-> [j \in 0..(Len(rows[i + 1]) - 1) |-> rows[i + 1][j + 1]]]

\* pairwise_distance_block_size is not passed on by
\* approximate_augmentation_distance: the default applies.
DefaultBlockSize == 1024

\* ------------------------------------------------------------- lazy_greedy
\* The top of the priority structure: largest gain, ties to the lowest index.
Top(h) ==
    CHOOSE e \in h : \A o \in h :
        e.gain > o.gain \/ (e.gain = o.gain /\ e.idx <= o.idx)

\* The budget passed at line 210: len(self.augmentation_distance[latent_class]).
Budget == Rows(arrays[cur])

\* The objective's matrix, through its reference.
FDistance == arrays[F.distance]

\* lazy_greedy entry: every candidate of V = range(n) enters the priority
\* structure with its gain against the empty selection.
LGStart ==
    /\ pc = "lg_init"
    /\ order' = {[gain |-> inc(FDistance, F.threshold, << >>, i), idx |-> i, round |-> 0] :
                    i \in 0..(Budget - 1)}
    /\ sset' = << >>
    /\ pops' = 0
    /\ pc' = "lg_loop"
    /\ UNCHANGED << partition, arrays, F, threshold, subset_fraction, precomputed, Z,
                    todo, cur, class_wise_idx, cw_keys, k2, subset_indices, outcome,
                    aug0, contrib, addCalls >>
    /\ UNCHANGED pdVars

\* One step of lazy_greedy: pop the top, recompute its gain, accept it (and
\* commit it with add) if it dominates the next-best stale entry, else reinsert.
LGStep ==
    /\ pc = "lg_loop"
    /\ Len(sset) < Budget
    /\ order # {}
    /\ pops' = pops + 1
    /\ LET el == Top(order)
           rest == order \ {el}
           improv == inc(FDistance, F.threshold, sset, el.idx)
       IN  IF rest = {} \/ improv >= Top(rest).gain
           THEN /\ arrays' = [arrays EXCEPT ![F.distance] = add(@, el.idx)]
                /\ addCalls' = Append(addCalls, el.idx)
                /\ sset' = Append(sset, el.idx)
                /\ order' = rest
           ELSE /\ order' = rest \cup {[gain |-> improv, idx |-> el.idx, round |-> Len(sset)]}
                /\ UNCHANGED << arrays, addCalls, sset >>
    /\ UNCHANGED << pc, partition, F, threshold, subset_fraction, precomputed, Z,
                    todo, cur, class_wise_idx, cw_keys, k2, subset_indices, outcome,
                    aug0, contrib >>
    /\ UNCHANGED pdVars

\* lazy_greedy returns sset once the budget is met (or nothing is left).
LGReturn ==
    /\ pc = "lg_loop"
    /\ (Len(sset) >= Budget \/ order = {})
    /\ pc' = "map"
    /\ UNCHANGED << partition, arrays, F, threshold, subset_fraction, precomputed, Z,
                    todo, cur, order, sset, class_wise_idx, cw_keys, k2,
                    subset_indices, outcome, aug0, contrib, addCalls, pops >>
    /\ UNCHANGED pdVars

\* ------------------------------------------------ SASSubsetDataset.__init__
FRef == 0

\* int(x) of the rational p / q: truncation toward zero.
IntTrunc(p, q) == IF p >= 0 THEN p \div q ELSE -((-p) \div q)

\* Python's lst[:k], k of either sign.
SlicePrefix(lst, k) ==
    IF k >= 0 THEN SubSeq(lst, 1, Min(k, Len(lst)))
    ELSE SubSeq(lst, 1, Max(Len(lst) + k, 0))

Truncated_fromEnd(lst, f) ==
    LET k == IntTrunc(f * Len(lst), FractionDen)
    IN  SubSeq(lst, Len(lst) - Min(k, Len(lst)) + 1, Len(lst))

Truncated_roundUp(lst, f) ==
    SlicePrefix(lst, (f * Len(lst) + FractionDen - 1) \div FractionDen)

\* class_wise_idx[latent_class][:int(self.subset_fraction * l)], l the length
\* of the ranked list.
Truncated(lst, f) == SlicePrefix(lst, IntTrunc(f * Len(lst), FractionDen))

CopyArray_alias(st, r) == [store |-> st, ref |-> r]

\* ndarray.copy(): a new array object with the same values, held in slot FRef
\* (the previous objective's array is garbage by then).
CopyArray(st, r) == [store |-> (FRef :> st[r]) @@ st, ref |-> FRef]

MapBack_local(members, ranked) == ranked

\* [self.partition[latent_class][i] for i in class_wise_idx[latent_class]]
MapBack(members, ranked) == [k \in 1..Len(ranked) |-> members[ranked[k] + 1]]

\* approximate_augmentation_distance: one matrix per class from the encodings
\* of its members.
ApproximateAugmentationDistance ==
    [c \in DOMAIN partition |->
        LET Zp == [k \in 1..Len(partition[c]) |-> Z[partition[c][k]]]
        IN  ToMatrix(pairwise_distance(Zp, Zp, DefaultBlockSize))]

\* Lines 204-205: build the matrices unless the caller passed them.
ObtainDistances ==
    /\ pc = "obtain"
    /\ arrays' = IF precomputed THEN arrays ELSE ApproximateAugmentationDistance
    /\ aug0' = arrays'
    /\ pc' = "loop1"
    /\ UNCHANGED << partition, F, threshold, subset_fraction, precomputed, Z, todo,
                    cur, order, sset, class_wise_idx, cw_keys, k2, subset_indices,
                    outcome, contrib, addCalls, pops >>
    /\ UNCHANGED pdVars

\* Lines 208-209: the next latent class, and its objective over a copy of the
\* class's matrix.
StartPartition(c) ==
    /\ pc = "loop1"
    /\ c \in todo
    /\ LET cp == CopyArray(arrays, c)
       IN  /\ arrays' = cp.store
           /\ F' = [distance |-> cp.ref, threshold |-> threshold]
    /\ cur' = c
    /\ todo' = todo \ {c}
    /\ pc' = "lg_init"
    /\ UNCHANGED << partition, threshold, subset_fraction, precomputed, Z, order,
                    sset, class_wise_idx, cw_keys, k2, subset_indices, outcome, aug0,
                    contrib, addCalls, pops >>
    /\ UNCHANGED pdVars

\* Lines 210-211: the ranking is stored, mapped back to item indices.
StoreRanking ==
    /\ pc = "map"
    /\ class_wise_idx' = (cur :> MapBack(partition[cur], sset)) @@ class_wise_idx
    /\ cw_keys' = Append(cw_keys, cur)
    /\ pc' = "loop1"
    /\ UNCHANGED << partition, arrays, F, threshold, subset_fraction, precomputed, Z,
                    todo, cur, order, sset, k2, subset_indices, outcome, aug0,
                    contrib, addCalls, pops >>
    /\ UNCHANGED pdVars

\* Line 213: the first loop is over; self.subset_indices = [].
EndFirstLoop ==
    /\ pc = "loop1"
    /\ todo = {}
    /\ subset_indices' = << >>
    /\ k2' = 1
    /\ pc' = "loop2"
    /\ UNCHANGED << partition, arrays, F, threshold, subset_fraction, precomputed, Z,
                    todo, cur, order, sset, class_wise_idx, cw_keys, outcome, aug0,
                    contrib, addCalls, pops >>
    /\ UNCHANGED pdVars

\* Lines 214-216: the truncated ranking of the next class is appended.
ExtendSubset ==
    /\ pc = "loop2"
    /\ k2 <= Len(cw_keys)
    /\ LET c == cw_keys[k2]
           part == Truncated(class_wise_idx[c], subset_fraction)
       IN  /\ subset_indices' = subset_indices \o part
           /\ contrib' = (c :> part) @@ contrib
    /\ k2' = k2 + 1
    /\ UNCHANGED << pc, partition, arrays, F, threshold, subset_fraction, precomputed,
                    Z, todo, cur, order, sset, class_wise_idx, cw_keys, outcome, aug0,
                    addCalls, pops >>
    /\ UNCHANGED pdVars

\* Line 218: initialization_complete(); the constructor returns.
FinishInit ==
    /\ pc = "loop2"
    /\ k2 > Len(cw_keys)
    /\ pc' = "done"
    /\ outcome' = "ok"
    /\ UNCHANGED << partition, arrays, F, threshold, subset_fraction, precomputed, Z,
                    todo, cur, order, sset, class_wise_idx, cw_keys, k2,
                    subset_indices, aug0, contrib, addCalls, pops >>
    /\ UNCHANGED pdVars

Next ==
    \/ ObtainDistances
    \/ \E c \in Classes : StartPartition(c)
    \/ LGStart
    \/ LGStep
    \/ LGReturn
    \/ StoreRanking
    \/ EndFirstLoop
    \/ ExtendSubset
    \/ FinishInit

\* ------------------------------------------------------------------ inputs
Thresholds == 0..MaxThreshold

\* Numerators of subset_fraction: the valid ones are 1..FractionDen.
Fractions == (-1)..(FractionDen + 1)
ValidFractions == 1..FractionDen

\* The sequences without repetition over S of length 1..maxLen.
RECURSIVE MemberLists(_, _)
MemberLists(S, maxLen) ==
    IF maxLen = 0 THEN {}
    ELSE {<<x>> : x \in S}
         \cup UNION {{<<x>> \o m : m \in MemberLists(S \ {x}, maxLen - 1)} : x \in S}

\* The partition mappings over classes C with pairwise disjoint member lists
\* drawn from the items S (a class may be absent; the empty mapping is one).
RECURSIVE PartitionMaps(_, _)
PartitionMaps(C, S) ==
    IF C = {} THEN {<< >>}
    ELSE LET c == CHOOSE x \in C : \A y \in C : x >= y
         IN  PartitionMaps(C \ {c}, S)
             \cup UNION {{(c :> m) @@ pm : pm \in PartitionMaps(C \ {c}, S \ Range(m))} :
                            m \in MemberLists(S, MaxPart)}

\* One matrix per class of pm, sized to the class's member list.
RECURSIVE MatrixMaps(_, _)
MatrixMaps(C, pm) ==
    IF C = {} THEN {<< >>}
    ELSE LET c == CHOOSE x \in C : \A y \in C : x >= y
         IN  UNION {{(c :> D) @@ mm : mm \in MatrixMaps(C \ {c}, pm)} :
                       D \in Matrices(Len(pm[c]), OrchWeight)}

\* The scenario of the specification's section 8: five elements, self
\* similarity 1.00, near-duplicates 0 and 1 at 0.99, every other pair at 0.10
\* (scores scaled by 100).
ExampleMatrix ==
    [i \in 0..4 |-> [j \in 0..4 |->
        IF i = j THEN 100 ELSE IF {i, j} = {0, 1} THEN 99 ELSE 10]]

ExampleConfig ==
    [partition |-> (1 :> <<0, 1, 2, 3, 4>>), arrays |-> (1 :> ExampleMatrix),
     precomputed |-> TRUE, Z |-> None]

\* Mappings outside the data model: two classes with the same member list, and
\* a class that lists an item twice.
OverlappingMaps ==
    {(1 :> <<x>>) @@ (2 :> <<x>>) : x \in Items}
    \cup {(1 :> <<x, x>>) : x \in Items}

AllPartitionMaps == PartitionMaps(Classes, Items) \cup OverlappingMaps

OrchConfigs ==
    UNION {{[partition |-> pm, arrays |-> mm, precomputed |-> TRUE, Z |-> None] :
               mm \in MatrixMaps(DOMAIN pm, pm)} :
           pm \in AllPartitionMaps}
    \cup {[partition |-> pm, arrays |-> << >>, precomputed |-> FALSE, Z |-> z] :
             pm \in AllPartitionMaps, z \in [Items -> EncoderPool]}
    \cup {ExampleConfig}

\* The single-partition configuration of a selector run on matrix D: the
\* identity member list.
SelectorConfig(D) ==
    [partition |-> (1 :> [k \in 1..Rows(D) |-> k - 1]), arrays |-> (1 :> D),
     precomputed |-> TRUE, Z |-> None]

PDIdle ==
    /\ Z1 = << >>
    /\ Z2 = << >>
    /\ block_size = 1
    /\ pd_i = 0
    /\ pd_j = 0
    /\ row_blocks = << >>
    /\ similarity_matrices = << >>
    /\ similarity_matrix = None

\* The state on entry to line 204: the base class has stored its arguments.
InitFrom(cfg, t, f) ==
    /\ pc = "obtain"
    /\ partition = cfg.partition
    /\ arrays = cfg.arrays
    /\ precomputed = cfg.precomputed
    /\ Z = cfg.Z
    /\ threshold = t
    /\ subset_fraction = f
    /\ F = None
    /\ todo = DOMAIN cfg.partition
    /\ cur = None
    /\ order = {}
    /\ sset = << >>
    /\ class_wise_idx = << >>
    /\ cw_keys = << >>
    /\ k2 = 0
    /\ subset_indices = None
    /\ outcome = "running"
    /\ aug0 = << >>
    /\ contrib = << >>
    /\ addCalls = << >>
    /\ pops = 0
    /\ PDIdle

Init == \E cfg \in OrchConfigs, t \in Thresholds, f \in Fractions : InitFrom(cfg, t, f)

Spec == Init /\ [][Next]_vars

\* Selector runs: every matrix of dimension at most MaxN and weight at most
\* MaxWeight, every threshold, the whole ranking kept.
InitSelector ==
    \E n \in 1..MaxN : \E D \in Matrices(n, MaxWeight) : \E t \in Thresholds :
        InitFrom(SelectorConfig(D), t, FractionDen)

SpecSelector == InitSelector /\ [][Next]_vars

\* --------------------------------------- a free-standing coverage objective
\* SubsetSelectionObjective(distance, threshold) over an array of its own.
InitObjective ==
    /\ pc = "objective"
    /\ \E n \in 1..MaxN : \E D \in Matrices(n, ObjWeight) :
          /\ arrays = (FRef :> D)
          /\ aug0 = (FRef :> D)
    /\ \E t \in Thresholds :
          /\ threshold = t
          /\ F = [distance |-> FRef, threshold |-> t]
    /\ partition = << >>
    /\ precomputed = TRUE
    /\ Z = None
    /\ subset_fraction = FractionDen
    /\ todo = {}
    /\ cur = None
    /\ order = {}
    /\ sset = << >>
    /\ class_wise_idx = << >>
    /\ cw_keys = << >>
    /\ k2 = 0
    /\ subset_indices = None
    /\ outcome = "running"
    /\ contrib = << >>
    /\ addCalls = << >>
    /\ pops = 0
    /\ PDIdle

\* A caller commits index i: F.add(i).
CallAdd(i) ==
    /\ pc = "objective"
    /\ Len(addCalls) < MaxCalls
    /\ i \in DOMAIN FDistance
    /\ arrays' = [arrays EXCEPT ![F.distance] = add(@, i)]
    /\ addCalls' = Append(addCalls, i)
    /\ UNCHANGED << pc, partition, F, threshold, subset_fraction, precomputed, Z,
                    todo, cur, order, sset, class_wise_idx, cw_keys, k2,
                    subset_indices, outcome, aug0, contrib, pops >>
    /\ UNCHANGED pdVars

NextObjective == \E i \in 0..MaxN : CallAdd(i)

SpecObjective == InitObjective /\ [][NextObjective]_vars

\* ---------------------------------------------- pairwise_distance, by steps
VecSeqs ==
    UNION {[1..n -> VecPool] : n \in 1..MaxVecs}

InitPD ==
    /\ pc = "pd_outer"
    /\ Z1 \in VecSeqs
    /\ Z2 \in VecSeqs
    /\ block_size \in 1..MaxBlock
    /\ pd_i = 0
    /\ pd_j = 0
    /\ row_blocks = << >>
    /\ similarity_matrices = << >>
    /\ similarity_matrix = None
    /\ partition = << >>
    /\ arrays = << >>
    /\ aug0 = << >>
    /\ F = None
    /\ threshold = 0
    /\ precomputed = TRUE
    /\ Z = None
    /\ subset_fraction = FractionDen
    /\ todo = {}
    /\ cur = None
    /\ order = {}
    /\ sset = << >>
    /\ class_wise_idx = << >>
    /\ cw_keys = << >>
    /\ k2 = 0
    /\ subset_indices = None
    /\ outcome = "running"
    /\ contrib = << >>
    /\ addCalls = << >>
    /\ pops = 0

\* Lines 258-260: the next row block; similarity_matrices_i = [].
PDBeginRow ==
    /\ pc = "pd_outer"
    /\ pd_i < NumBlocks(Len(Z1), block_size)
    /\ row_blocks' = << >>
    /\ pd_j' = 0
    /\ pc' = "pd_inner"
    /\ UNCHANGED << Z1, Z2, block_size, pd_i, similarity_matrices, similarity_matrix >>
    /\ UNCHANGED << partition, arrays, F, threshold, subset_fraction, precomputed, Z,
                    todo, cur, order, sset, class_wise_idx, cw_keys, k2,
                    subset_indices, outcome, aug0, contrib, addCalls, pops >>

\* Lines 261-267: the block of row block pd_i and column block pd_j.
PDBlock ==
    /\ pc = "pd_inner"
    /\ pd_j < NumBlocks(Len(Z2), block_size)
    /\ row_blocks' =
          Append(row_blocks,
                 SimBlock(Slice(Z1, pd_i * block_size, (pd_i + 1) * block_size),
                          Slice(Z2, pd_j * block_size, (pd_j + 1) * block_size)))
    /\ pd_j' = pd_j + 1
    /\ UNCHANGED << Z1, Z2, block_size, pd_i, similarity_matrices, similarity_matrix >>
    /\ UNCHANGED orchVars

\* Line 268: similarity_matrices.append(similarity_matrices_i).
PDEndRow ==
    /\ pc = "pd_inner"
    /\ pd_j >= NumBlocks(Len(Z2), block_size)
    /\ similarity_matrices' = Append(similarity_matrices, row_blocks)
    /\ pd_i' = pd_i + 1
    /\ pc' = "pd_outer"
    /\ UNCHANGED << Z1, Z2, block_size, pd_j, row_blocks, similarity_matrix >>
    /\ UNCHANGED << partition, arrays, F, threshold, subset_fraction, precomputed, Z,
                    todo, cur, order, sset, class_wise_idx, cw_keys, k2,
                    subset_indices, outcome, aug0, contrib, addCalls, pops >>

\* Lines 269-271: np.block assembles the blocks; the matrix is returned.
PDAssemble ==
    /\ pc = "pd_outer"
    /\ pd_i >= NumBlocks(Len(Z1), block_size)
    /\ similarity_matrix' = NpBlock(similarity_matrices)
    /\ pc' = "pd_done"
    /\ UNCHANGED << Z1, Z2, block_size, pd_i, pd_j, row_blocks, similarity_matrices >>
    /\ UNCHANGED << partition, arrays, F, threshold, subset_fraction, precomputed, Z,
                    todo, cur, order, sset, class_wise_idx, cw_keys, k2,
                    subset_indices, outcome, aug0, contrib, addCalls, pops >>

NextPD == PDBeginRow \/ PDBlock \/ PDEndRow \/ PDAssemble

SpecPD == InitPD /\ [][NextPD]_vars

\* ================================================================== claims
\* The reference of the lazy/naive comparison: every round recomputes
\* inc(selected, i) for every not-yet-selected i on the objective's current
\* matrix and takes the maximum, ties to the lowest index, then commits it.
RECURSIVE NaiveRounds(_, _, _, _)
NaiveRounds(D, t, sel, k) ==
    LET cand == DOMAIN D \ Range(sel)
    IN  IF k = 0 \/ cand = {} THEN sel
        ELSE LET best == CHOOSE i \in cand : \A j \in cand :
                            \/ inc(D, t, sel, i) > inc(D, t, sel, j)
                            \/ (inc(D, t, sel, i) = inc(D, t, sel, j) /\ i <= j)
             IN  NaiveRounds(add(D, best), t, Append(sel, best), k - 1)

NaiveGreedy(D, t) == NaiveRounds(D, t, << >>, Rows(D))

\* C1: on every matrix and threshold, with budget n, the lazy selector pops
\* exactly one entry per accepted element, so it returns after n rounds, and
\* the sequence it returns is the sequence of the naive greedy that recomputes
\* every gain in every round (ties to the lowest index).
C1_LazyEqualsNaive ==
    /\ pc = "lg_loop" => pops = Len(sset)
    /\ pc = "map" =>
          /\ pops = Budget
          /\ Len(sset) = Budget
          /\ sset = NaiveGreedy(aug0[cur], threshold)

\* A returned ranking of three elements that is not the index order and in
\* which two candidates tied.
C1_Witness ==
    /\ pc = "map"
    /\ Len(sset) = 3
    /\ sset # <<0, 1, 2>>
    /\ \E i, j \in DOMAIN aug0[cur] :
          /\ i # j
          /\ ThresholdedRowSum(aug0[cur], threshold, i)
                = ThresholdedRowSum(aug0[cur], threshold, j)
          /\ ThresholdedRowSum(aug0[cur], threshold, i) > 0

\* C2: in the five-element scenario (near-duplicates 0 and 1, threshold 0,
\* fraction 3/5) the three selected elements do not include both 0 and 1.
C2_NearDuplicatesNotBothSelected ==
    (/\ pc = "done"
     /\ aug0 = (1 :> ExampleMatrix)
     /\ partition = (1 :> <<0, 1, 2, 3, 4>>)
     /\ threshold = 0
     /\ subset_fraction = 3)
    => ~({0, 1} \subseteq Range(subset_indices))

RECURSIVE SumOver(_, _)
SumOver(S, f) ==
    IF S = {} THEN 0
    ELSE LET x == CHOOSE y \in S : TRUE IN f[x] + SumOver(S \ {x}, f)

\* floor(subset_fraction * partition_size), per class.
Share(f) == [c \in DOMAIN partition |-> (f * Len(partition[c])) \div FractionDen]

\* C3: for a subset_fraction in (0,1], the final list has exactly
\* sum over the partitions of floor(subset_fraction * partition_size) entries.
C3_LengthIsSumOfFloors ==
    (pc = "done" /\ subset_fraction \in ValidFractions)
    => Len(subset_indices) = SumOver(DOMAIN partition, Share(subset_fraction))

\* Two classes, one of which keeps some but not all of its members and one of
\* which keeps none.
C3_Witness ==
    /\ pc = "done"
    /\ subset_fraction \in ValidFractions
    /\ Cardinality(DOMAIN partition) = 2
    /\ \E c \in DOMAIN partition :
          /\ Share(subset_fraction)[c] > 0
          /\ Share(subset_fraction)[c] < Len(partition[c])
    /\ \E c \in DOMAIN partition : Share(subset_fraction)[c] = 0
    /\ Len(subset_indices) >= 1

NoRepeats(s) == \A a, b \in DOMAIN s : a # b => s[a] # s[b]

\* The partitions are pairwise disjoint and none lists an index twice.
DisjointPartitions ==
    /\ \A c \in DOMAIN partition : NoRepeats(partition[c])
    /\ \A c, d \in DOMAIN partition :
          c # d => Range(partition[c]) \cap Range(partition[d]) = {}

\* C4: with disjoint, repetition-free partitions the final list holds no item
\* index twice, it is the concatenation of the partitions' contributions, and
\* every entry a partition contributes is one of that partition's members.
C4_NoDuplicatesAndMembers ==
    (pc = "done" /\ DisjointPartitions)
    => /\ NoRepeats(subset_indices)
       /\ subset_indices = ConcatAll([k \in 1..Len(cw_keys) |-> contrib[cw_keys[k]]])
       /\ \A c \in DOMAIN partition : Range(contrib[c]) \subseteq Range(partition[c])

\* Two disjoint classes, at least two entries kept, one of them an item whose
\* index differs from every local position of its partition.
C4_Witness ==
    /\ pc = "done"
    /\ DisjointPartitions
    /\ Cardinality(DOMAIN partition) = 2
    /\ Len(subset_indices) >= 2
    /\ \E c \in DOMAIN partition : \E k \in DOMAIN contrib[c] :
          contrib[c][k] >= Len(partition[c])

\* The full ranking of class c as a function of the inputs alone.
FullRanking(c) == MapBack(partition[c], NaiveGreedy(aug0[c], threshold))

\* C5: the entries a partition contributes under fraction f are the
\* truncation at f of a ranking fixed by the inputs, and are a prefix of what
\* the same partition contributes under every larger fraction g.
C5_NestedPrefixes ==
    (pc = "done" /\ subset_fraction \in ValidFractions)
    => \A c \in DOMAIN partition :
          /\ contrib[c] = Truncated(FullRanking(c), subset_fraction)
          /\ \A g \in ValidFractions :
                subset_fraction < g
                => IsPrefix(contrib[c], Truncated(FullRanking(c), g))

\* A run whose contribution is non-empty and strictly shorter than what a
\* larger fraction keeps.
C5_Witness ==
    /\ pc = "done"
    /\ subset_fraction \in ValidFractions
    /\ \E c \in DOMAIN partition : \E g \in ValidFractions :
          /\ subset_fraction < g
          /\ Len(contrib[c]) >= 1
          /\ Len(contrib[c]) < Len(Truncated(FullRanking(c), g))

\* An empty partition mapping, or a subset_fraction outside (0,1].
InvalidConfiguration == partition = << >> \/ subset_fraction \notin ValidFractions

\* C6: construction with an invalid configuration ends in an error and
\* produces no final list.
C6_InvalidConfigurationRejected ==
    (pc = "done" /\ InvalidConfiguration)
    => /\ outcome = "error"
       /\ subset_indices = None

\* The unblocked computation: cell (i, j) is the similarity of Z1[i], Z2[j].
Unblocked(z1, z2) == [i \in 1..Len(z1) |-> [j \in 1..Len(z2) |-> CosSim(z1[i], z2[j])]]

\* The blocks (0-based) whose slice holds position k (1-based) of a sequence.
BlocksHolding(n, b, k) ==
    {q \in 0..(NumBlocks(n, b) - 1) : q * b < k /\ k <= Min((q + 1) * b, n)}

\* C7: for every n1, n2 >= 1 and block size b >= 1 the returned matrix is the
\* n1 x n2 matrix of the unblocked computation, every row and column position
\* lies in exactly one block, and every other block size gives the same matrix.
C7_BlockedEqualsUnblocked ==
    pc = "pd_done"
    => /\ similarity_matrix = Unblocked(Z1, Z2)
       /\ Len(similarity_matrix) = Len(Z1)
       /\ \A i \in 1..Len(Z1) : Len(similarity_matrix[i]) = Len(Z2)
       /\ \A i \in 1..Len(Z1) : Cardinality(BlocksHolding(Len(Z1), block_size, i)) = 1
       /\ \A j \in 1..Len(Z2) : Cardinality(BlocksHolding(Len(Z2), block_size, j)) = 1
       /\ \A b \in 1..MaxBlock : pairwise_distance(Z1, Z2, b) = similarity_matrix

\* n1 an exact multiple of the block size (an empty trailing row block), n2
\* larger than the block size and not a multiple of it (a remainder block).
C7_Witness ==
    /\ pc = "pd_done"
    /\ Len(Z1) % block_size = 0
    /\ Len(Z2) > block_size
    /\ Len(Z2) % block_size # 0
    /\ Len(similarity_matrices) = Len(Z1) \div block_size + 1
    /\ similarity_matrices[Len(similarity_matrices)][1] = << >>

\* The matrices have been obtained (passed in, or built).
Obtained == pc \notin {"obtain", "objective", "pd_outer", "pd_inner", "pd_done"}

\* C8: every matrix of the augmentation_distance mapping keeps its original
\* values throughout and after construction, the objective never holds a
\* reference to one of them, and the ranking stored for a class is the ranking
\* of that class's original matrix alone, in whatever order the classes are
\* processed.
C8_PrivateCopies ==
    Obtained
    => /\ \A c \in DOMAIN partition : arrays[c] = aug0[c]
       /\ (pc \in {"lg_init", "lg_loop", "map"} => F.distance \notin DOMAIN partition)
       /\ \A c \in DOMAIN class_wise_idx : class_wise_idx[c] = FullRanking(c)

\* Two classes processed in descending id order, both with a non-zero matrix,
\* after the objective's own copy has been zeroed.
C8_Witness ==
    /\ pc = "done"
    /\ cw_keys = <<2, 1>>
    /\ \A c \in DOMAIN partition : \E i, j \in DOMAIN aug0[c] : aug0[c][i][j] # 0
    /\ \A i, j \in DOMAIN arrays[FRef] : arrays[FRef][i][j] = 0

Added == Range(addCalls)

\* C9: after any sequence of add calls the row of every added index is all
\* zeros, the row of every never-added index has its initial values (so the
\* column of an added index is untouched in those rows), and a further add of
\* an added index leaves the matrix unchanged.
C9_AddZeroesRowOnly ==
    pc = "objective"
    => \A i \in DOMAIN FDistance :
          /\ i \in Added => \A c \in DOMAIN FDistance[i] : FDistance[i][c] = 0
          /\ i \notin Added => FDistance[i] = aug0[FRef][i]
          /\ i \in Added => add(FDistance, i) = FDistance

\* Some index was added twice, and a never-added row still holds a non-zero
\* value in the column of an added index.
C9_Witness ==
    /\ pc = "objective"
    /\ \E a, b \in DOMAIN addCalls : a # b /\ addCalls[a] = addCalls[b]
    /\ \E i \in Added : \E r \in DOMAIN FDistance \ Added : FDistance[r][i] > 0

\* C10: while the selector runs, for every not-yet-selected i the subtracted
\* term of inc is 0 and inc(selected, i) is the thresholded sum of row i of
\* the initial matrix.
C10_GainsAreStatic ==
    pc = "lg_loop"
    => \A i \in DOMAIN FDistance \ Range(sset) :
          /\ SelectedColumnSum(FDistance, sset, i) = 0
          /\ inc(FDistance, F.threshold, sset, i)
                = ThresholdedRowSum(aug0[cur], threshold, i)

\* A selected element whose initial row covered a not-yet-selected one: the
\* subtracted term would be non-zero on the initial matrix.
C10_Witness ==
    /\ pc = "lg_loop"
    /\ Len(sset) >= 1
    /\ \E i \in DOMAIN FDistance \ Range(sset) :
          SelectedColumnSum(aug0[cur], sset, i) > 0

====
